---- MODULE Spec2Model ----
(***************************************************************************)
(* Model of compare.cpp (DNA Sequence Comparator): compare_files and main. *)
(*                                                                         *)
(* A path is modelled by what the filesystem holds at it: a regular file   *)
(* with a byte sequence, or nothing that can be opened.  Files are not     *)
(* modified while the program runs.  A read on a stream may end in an I/O  *)
(* error; with the build named in the source (g++, libstdc++) the filebuf  *)
(* throws, istream::read catches it, sets badbit and leaves gcount at 0.   *)
(***************************************************************************)
EXTENDS Integers, Sequences, FiniteSets, TLC

\* ------------------------------------------------------------------ bounds
\* Longest file, in bytes.
MaxLen == 3
\* Width of std::size_t / unsigned long in bits.  The program's is 64; TLC's
\* integers are 32-bit, so the word is kept narrower and every size_t
\* operation is taken modulo 2^SizeBits.
SizeBits == 29

SizeMod == 2^SizeBits
ULONG_MAX == SizeMod - 1
\* std::vector<char>::max_size() == PTRDIFF_MAX
VectorMaxSize == 2^(SizeBits - 1) - 1

\* ------------------------------------------------------------------ values
\* File bytes: 'A' and 'T'.  A value-initialised vector<char> holds '\0'.
Byte == {65, 84}
NUL == 0

Min(a, b) == IF a < b THEN a ELSE b

Contents == UNION {[1..k -> Byte] : k \in 0..MaxLen}
NoFile == [exists |-> FALSE, data |-> <<>>]
Paths == {[exists |-> TRUE, data |-> d] : d \in Contents} \cup {NoFile}

\* Lowest offset (0-based) at which two byte sequences of equal length differ,
\* or their length when they are equal.
FirstDiff(a, b) ==
  IF \E i \in 1..Len(a) : a[i] # b[i]
  THEN (CHOOSE i \in 1..Len(a) : a[i] # b[i] /\ \A j \in 1..(i - 1) : a[j] = b[j]) - 1
  ELSE Len(a)

\* ------------------------------------------------------- size_t arithmetic
\* Unsigned multiplication in SizeBits bits (shift and add, so that no
\* intermediate value leaves TLC's integers).
RECURSIVE MulSize(_, _)
MulSize(a, b) ==
  IF b = 0 THEN 0
  ELSE LET h == MulSize(a, b \div 2)
       IN  (((2 * h) % SizeMod) + (IF b % 2 = 1 THEN a % SizeMod ELSE 0)) % SizeMod

\* buffer_size_mb * 1024ULL * 1024ULL
BufferSizeBytes(mb) == MulSize(MulSize(mb, 1024), 1024)

\* ------------------------------------------------------------- std::stoul
DigitVal ==
  ("0" :> 0) @@ ("1" :> 1) @@ ("2" :> 2) @@ ("3" :> 3) @@ ("4" :> 4) @@
  ("5" :> 5) @@ ("6" :> 6) @@ ("7" :> 7) @@ ("8" :> 8) @@ ("9" :> 9)
IsDigit(c) == c \in DOMAIN DigitVal

\* strtoul's digit loop from position i: the value so far, whether any digit
\* was consumed, and whether the value left the range of unsigned long.
RECURSIVE Accumulate(_, _, _)
Accumulate(s, i, acc) ==
  IF i > Len(s) \/ ~IsDigit(s[i]) THEN acc
  ELSE LET d == DigitVal[s[i]]
       IN  IF acc.over \/ acc.val > (ULONG_MAX - d) \div 10
           THEN Accumulate(s, i + 1, [val |-> 0, any |-> TRUE, over |-> TRUE])
           ELSE Accumulate(s, i + 1, [val |-> acc.val * 10 + d, any |-> TRUE, over |-> FALSE])

\* std::stoul(str): optional sign, then the longest prefix of decimal digits;
\* trailing characters are ignored; a minus sign negates modulo 2^w.
Stoul(s) ==
  LET neg   == Len(s) > 0 /\ s[1] = "-"
      first == IF neg THEN 2 ELSE 1
      r     == Accumulate(s, first, [val |-> 0, any |-> FALSE, over |-> FALSE])
  IN  IF ~r.any THEN [status |-> "invalid_argument", value |-> 0]
      ELSE IF r.over THEN [status |-> "out_of_range", value |-> 0]
      ELSE [status |-> "ok", value |-> IF neg THEN (SizeMod - r.val) % SizeMod ELSE r.val]

\* The optional third argument, as typed on the command line.
SizeArgs ==
  { <<"0">>, <<"1">>, <<"8">>, <<"5", "1", "2">>, <<"1", "0", "2", "4">>,
    <<"8", "x">>, <<"x">>, <<>>, <<"-", "1">>,
    <<"9", "9", "9", "9", "9", "9", "9", "9", "9", "9">> }

\* argv without argv[0]: zero to three arguments.
ArgLists ==
  {<<>>} \cup {<<p>> : p \in Paths} \cup {<<p, q>> : p, q \in Paths}
         \cup {<<p, q, s>> : p, q \in Paths, s \in SizeArgs}

\* Buffer sizes handed to compare_files by a direct caller.
CallSizes == 0..(MaxLen + 1) \cup {ULONG_MAX}

VARIABLES
  args,               \* main: argv[1..argc-1]; <<>> when there is no main frame
  inMain,             \* TRUE when compare_files was called by main
  buffer_size_mb,     \* main's local
  file1_path, file2_path, buffer_size_bytes,   \* compare_files' parameters
  file1, file2,       \* the two std::ifstream objects
  size1, size2,       \* fs::file_size results, -1 before the query
  buffer1, buffer2,   \* the two std::vector<char>
  result,             \* compare_files' return value, meaningful once it returned
  returned,           \* history: the current call of compare_files has returned
  pc,
  stderr, stdout, exit_code,
  compared,           \* history: number of byte offsets memcmp has covered
  ioError,            \* history: some read of this call ended in an I/O error
  prev                \* direct caller: the records of the calls that returned

vars == <<args, inMain, buffer_size_mb, file1_path, file2_path, buffer_size_bytes,
          file1, file2, size1, size2, buffer1, buffer2, result, returned, pc,
          stderr, stdout, exit_code, compared, ioError, prev>>

\* ---------------------------------------------------------------- streams
NoStream == [is_open |-> FALSE, pos |-> 0, fail |-> TRUE, gcount |-> 0, reads |-> 0]
NoBuffer == [allocated |-> FALSE, size |-> 0, bytes |-> <<>>]

\* std::ifstream(path, std::ios::binary)
OpenStream(path) ==
  [is_open |-> path.exists, pos |-> 0, fail |-> ~path.exists, gcount |-> 0, reads |-> 0]

\* std::vector<char>(n): n bytes, all '\0'.  Only the first MaxLen bytes can
\* ever be written by a read, so only those are kept.
NewBuffer(n) ==
  [allocated |-> TRUE, size |-> n, bytes |-> [i \in 1..Min(n, MaxLen) |-> NUL]]

\* Mutant: a read that cannot fill the buffer reports no bytes at all.
ReadCountFullOnly(f, data, n, err) ==
  IF f.fail \/ err \/ Len(data) - f.pos < n THEN 0 ELSE n

\* Number of bytes istream::read(buf, n) obtains (its gcount).
ReadCount(f, data, n, err) ==
  IF f.fail \/ err THEN 0 ELSE Min(n, Len(data) - f.pos)

\* The stream after read(buf, n): short of n bytes it sets eofbit|failbit, on
\* an I/O error badbit.
StreamAfterRead(f, data, n, err) ==
  LET k == ReadCount(f, data, n, err)
  IN  [f EXCEPT !.pos = @ + k, !.gcount = k, !.reads = @ + 1,
                !.fail = (f.fail \/ err \/ k # n)]

\* The buffer after read(buf, n): its first gcount bytes are overwritten.
BufferAfterRead(b, f, data, n, err) ==
  LET k == ReadCount(f, data, n, err)
  IN  [b EXCEPT !.bytes = [i \in DOMAIN b.bytes |-> IF i <= k THEN data[f.pos + i] ELSE b.bytes[i]]]

\* Mutant: the last byte of the chunk is left out of the comparison.
MemcmpShort(b1, b2, k) == \E i \in 1..(k - 1) : b1.bytes[i] # b2.bytes[i]

\* Mutant: memcmp(...) > 0 instead of != 0.
MemcmpGreater(b1, b2, k) ==
  \E i \in 1..k : b1.bytes[i] > b2.bytes[i] /\ \A j \in 1..(i - 1) : b1.bytes[j] = b2.bytes[j]

\* std::memcmp(b1, b2, k) != 0
Memcmp(b1, b2, k) == \E i \in 1..k : b1.bytes[i] # b2.bytes[i]

\* Mutant: && instead of ||.
OpenFailedBoth(f1, f2) == ~f1.is_open /\ ~f2.is_open

\* !file1.is_open() || !file2.is_open()
OpenFailed(f1, f2) == ~f1.is_open \/ ~f2.is_open

\* Mutant: size1 < size2.
SizesDifferLess(s1, s2) == s1 < s2

\* size1 != size2
SizesDiffer(s1, s2) == s1 # s2

\* Mutant: a mismatching chunk does not end the loop.
IterOutcomeNoReturn(f1, f2, b1, b2) ==
  IF f1.gcount # f2.gcount THEN "return_false"
  ELSE IF f1.gcount = 0 THEN "break"
  ELSE "continue"

\* Mutant: a read of zero bytes is taken for a failure.
IterOutcomeZeroFails(f1, f2, b1, b2) ==
  IF f1.gcount # f2.gcount \/ f1.gcount = 0 THEN "return_false"
  ELSE IF Memcmp(b1, b2, f1.gcount) THEN "return_false"
  ELSE "continue"

\* The body of the while loop after the two reads (lines 56-69).
IterOutcome(f1, f2, b1, b2) ==
  IF f1.gcount # f2.gcount THEN "return_false"
  ELSE IF f1.gcount = 0 THEN "break"
  ELSE IF Memcmp(b1, b2, f1.gcount) THEN "return_false"
  ELSE "continue"

\* Mutant: 1 for "not equal".
ExitCodeOne(equal) == IF equal THEN 0 ELSE 1

\* equal ? 0 : 2
ExitCode(equal) == IF equal THEN 0 ELSE 2

UnableMsg == "Error: Unable to open one or both files."
UsageMsg == "Usage: ./compare <file1> <file2> [buffer_size_mb]"

\* The stdout report (the elapsed time is left out).
Report(p1, p2, mb, equal) ==
  [file1 |-> p1, file2 |-> p2, buffer_size_mb |-> mb,
   result |-> IF equal THEN "EQUAL" ELSE "NOT EQUAL"]

\* -------------------------------------------------------------------- Init
Locals ==
  /\ file1 = NoStream /\ file2 = NoStream
  /\ size1 = -1 /\ size2 = -1
  /\ buffer1 = NoBuffer /\ buffer2 = NoBuffer
  /\ result = FALSE /\ returned = FALSE
  /\ compared = 0 /\ ioError = FALSE

\* The process as started from the command line.
Init ==
  /\ args \in ArgLists
  /\ inMain = TRUE
  /\ pc = "main"
  /\ buffer_size_mb = 8
  /\ file1_path = NoFile /\ file2_path = NoFile /\ buffer_size_bytes = 0
  /\ Locals
  /\ stderr = <<>> /\ stdout = <<>> /\ exit_code = -1
  /\ prev = <<>>

\* compare_files called directly with arbitrary arguments.
InitCalls ==
  /\ args = <<>>
  /\ inMain = FALSE
  /\ pc = "open"
  /\ buffer_size_mb = 8
  /\ file1_path \in Paths /\ file2_path \in Paths
  /\ buffer_size_bytes \in CallSizes
  /\ Locals
  /\ stderr = <<>> /\ stdout = <<>> /\ exit_code = -1
  /\ prev = <<>>

\* ----------------------------------------------------------- compare_files
\* Lines 33-39: open both streams; give up when either is not open.
Open ==
  /\ pc = "open"
  /\ LET f1 == OpenStream(file1_path)
         f2 == OpenStream(file2_path)
     IN  /\ file1' = f1
         /\ file2' = f2
         /\ IF OpenFailed(f1, f2)
            THEN /\ stderr' = Append(stderr, UnableMsg)
                 /\ result' = FALSE /\ returned' = TRUE
                 /\ pc' = "ret"
            ELSE /\ pc' = "size"
                 /\ UNCHANGED <<stderr, result, returned>>
  /\ UNCHANGED <<args, inMain, buffer_size_mb, file1_path, file2_path, buffer_size_bytes,
                 size1, size2, buffer1, buffer2, stdout, exit_code, compared, ioError, prev>>

\* Lines 42-47: fs::file_size of both paths (it throws for a path that does
\* not exist); return false when the sizes differ.
SizeCheck ==
  /\ pc = "size"
  /\ IF ~file1_path.exists \/ ~file2_path.exists
     THEN /\ pc' = "abort"
          /\ UNCHANGED <<size1, size2, result, returned>>
     ELSE /\ size1' = Len(file1_path.data)
          /\ size2' = Len(file2_path.data)
          /\ IF SizesDiffer(size1', size2')
             THEN result' = FALSE /\ returned' = TRUE /\ pc' = "ret"
             ELSE pc' = "alloc" /\ UNCHANGED <<result, returned>>
  /\ UNCHANGED <<args, inMain, buffer_size_mb, file1_path, file2_path, buffer_size_bytes,
                 file1, file2, buffer1, buffer2, stderr, stdout, exit_code,
                 compared, ioError, prev>>

\* Lines 49-50: the two buffers.  A size above max_size() makes the vector
\* constructor throw std::length_error, which nothing catches.
Allocate ==
  /\ pc = "alloc"
  /\ IF buffer_size_bytes > VectorMaxSize
     THEN /\ pc' = "abort"
          /\ UNCHANGED <<buffer1, buffer2>>
     ELSE /\ buffer1' = NewBuffer(buffer_size_bytes)
          /\ buffer2' = NewBuffer(buffer_size_bytes)
          /\ pc' = "loop"
  /\ UNCHANGED <<args, inMain, buffer_size_mb, file1_path, file2_path, buffer_size_bytes,
                 file1, file2, size1, size2, result, returned, stderr, stdout,
                 exit_code, compared, ioError, prev>>

\* Lines 52-70: one iteration of the loop: both reads, then the three tests.
\* err1, err2: whether the read on that stream ends in an I/O error, which
\* can only happen when the read has bytes to fetch.
Iterate ==
  /\ pc = "loop"
  /\ ~file1.fail /\ ~file2.fail
  /\ \E err1, err2 \in BOOLEAN :
       /\ err1 => (buffer_size_bytes > 0 /\ file1.pos < Len(file1_path.data))
       /\ err2 => (buffer_size_bytes > 0 /\ file2.pos < Len(file2_path.data))
       /\ LET f1 == StreamAfterRead(file1, file1_path.data, buffer_size_bytes, err1)
              f2 == StreamAfterRead(file2, file2_path.data, buffer_size_bytes, err2)
              b1 == BufferAfterRead(buffer1, file1, file1_path.data, buffer_size_bytes, err1)
              b2 == BufferAfterRead(buffer2, file2, file2_path.data, buffer_size_bytes, err2)
              out == IterOutcome(f1, f2, b1, b2)
          IN  /\ file1' = f1 /\ file2' = f2
              /\ buffer1' = b1 /\ buffer2' = b2
              /\ ioError' = (ioError \/ err1 \/ err2)
              /\ compared' = IF f1.gcount = f2.gcount THEN compared + f1.gcount ELSE compared
              /\ CASE out = "return_false" -> result' = FALSE /\ returned' = TRUE /\ pc' = "ret"
                   [] out = "break"        -> result' = TRUE /\ returned' = TRUE /\ pc' = "ret"
                   [] OTHER                -> pc' = "loop" /\ UNCHANGED <<result, returned>>
  /\ UNCHANGED <<args, inMain, buffer_size_mb, file1_path, file2_path, buffer_size_bytes,
                 size1, size2, stderr, stdout, exit_code, prev>>

\* Lines 52 and 72: the loop condition fails; return true.
LoopExit ==
  /\ pc = "loop"
  /\ file1.fail \/ file2.fail
  /\ result' = TRUE /\ returned' = TRUE
  /\ pc' = "ret"
  /\ UNCHANGED <<args, inMain, buffer_size_mb, file1_path, file2_path, buffer_size_bytes,
                 file1, file2, size1, size2, buffer1, buffer2, stderr, stdout, exit_code,
                 compared, ioError, prev>>

\* -------------------------------------------------------------------- main
\* Lines 77-94: the usage check, std::stoul on the optional argument (an
\* exception it throws is not caught: std::terminate), the multiplication,
\* and the call.
Main ==
  /\ pc = "main"
  /\ IF Len(args) < 2
     THEN /\ stderr' = Append(stderr, UsageMsg)
          /\ exit_code' = 1
          /\ pc' = "exit"
          /\ UNCHANGED <<buffer_size_mb, file1_path, file2_path, buffer_size_bytes>>
     ELSE LET parsed == IF Len(args) >= 3 THEN Stoul(args[3])
                                          ELSE [status |-> "ok", value |-> buffer_size_mb]
          IN  IF parsed.status # "ok"
              THEN /\ pc' = "abort"
                   /\ UNCHANGED <<stderr, exit_code, buffer_size_mb, file1_path, file2_path,
                                  buffer_size_bytes>>
              ELSE /\ buffer_size_mb' = parsed.value
                   /\ file1_path' = args[1]
                   /\ file2_path' = args[2]
                   /\ buffer_size_bytes' = BufferSizeBytes(parsed.value)
                   /\ pc' = "open"
                   /\ UNCHANGED <<stderr, exit_code>>
  /\ UNCHANGED <<args, inMain, file1, file2, size1, size2, buffer1, buffer2, result,
                 returned, stdout, compared, ioError, prev>>

\* Lines 94-110: print the report and return the exit code.
MainReport ==
  /\ pc = "ret"
  /\ inMain
  /\ stdout' = Append(stdout, Report(file1_path, file2_path, buffer_size_mb, result))
  /\ exit_code' = ExitCode(result)
  /\ pc' = "exit"
  /\ UNCHANGED <<args, inMain, buffer_size_mb, file1_path, file2_path, buffer_size_bytes,
                 file1, file2, size1, size2, buffer1, buffer2, result, returned, stderr,
                 compared, ioError, prev>>

\* ----------------------------------------------------------- direct caller
\* A second call of compare_files (lines 29-31) after a first one returned:
\* either the same two paths with another buffer size, or the two paths
\* exchanged with the same buffer size.
CallAgain ==
  /\ pc = "ret"
  /\ ~inMain
  /\ prev = <<>>
  /\ prev' = <<[file1_path |-> file1_path, file2_path |-> file2_path,
                buffer_size_bytes |-> buffer_size_bytes, result |-> result,
                ioError |-> ioError]>>
  /\ \/ /\ file1_path' = file2_path
        /\ file2_path' = file1_path
        /\ UNCHANGED buffer_size_bytes
     \/ /\ buffer_size_bytes' \in (CallSizes \ {buffer_size_bytes})
        /\ UNCHANGED <<file1_path, file2_path>>
  /\ file1' = NoStream /\ file2' = NoStream
  /\ size1' = -1 /\ size2' = -1
  /\ buffer1' = NoBuffer /\ buffer2' = NoBuffer
  /\ result' = FALSE /\ returned' = FALSE
  /\ compared' = 0 /\ ioError' = FALSE
  /\ pc' = "open"
  /\ UNCHANGED <<args, inMain, buffer_size_mb, stderr, stdout, exit_code>>

CompareFiles == Open \/ SizeCheck \/ Allocate \/ Iterate \/ LoopExit

Next == Main \/ CompareFiles \/ MainReport
NextCalls == CompareFiles \/ CallAgain

Spec == Init /\ [][Next]_vars
SpecCalls == InitCalls /\ [][NextCalls]_vars
\* The process is one sequential thread that keeps running until it exits.
LiveSpec == Init /\ [][Next]_vars /\ WF_vars(Next)

\* ------------------------------------------------------------------ claims
BothExist == file1_path.exists /\ file2_path.exists
A == file1_path.data
B == file2_path.data
\* No read of the current call ended in an I/O error.
CleanReads == ~ioError

\* C1: for two files that open, any positive buffer size and reads that all
\* succeed, compare_files returns true exactly when the two byte sequences are
\* the same (same length, same byte at every offset).
C1_ByteIdentical ==
  (returned /\ BothExist /\ buffer_size_bytes > 0 /\ CleanReads) => (result = (A = B))

\* Two 3-byte files that differ only in the first byte of the second chunk
\* (buffer size 2) compared false.
C1_Witness ==
  /\ returned /\ BothExist /\ CleanReads
  /\ Len(A) = 3 /\ Len(B) = 3 /\ buffer_size_bytes = 2
  /\ A[1] = B[1] /\ A[2] = B[2] /\ A[3] # B[3]
  /\ result = FALSE

\* C2: two calls on the same two files with two positive buffer sizes return
\* the same result.
C2_BufferSizeIndependent ==
  (/\ returned /\ prev # <<>>
   /\ file1_path = prev[1].file1_path /\ file2_path = prev[1].file2_path
   /\ buffer_size_bytes > 0 /\ prev[1].buffer_size_bytes > 0
   /\ CleanReads /\ ~prev[1].ioError)
  => (result = prev[1].result)

\* Two 3-byte files differing in the last byte only, compared with buffer
\* size 1 and then with buffer size 2 (which does not divide 3): both false.
C2_Witness ==
  /\ returned /\ prev # <<>> /\ BothExist /\ CleanReads /\ ~prev[1].ioError
  /\ file1_path = prev[1].file1_path /\ file2_path = prev[1].file2_path
  /\ prev[1].buffer_size_bytes = 1 /\ buffer_size_bytes = 2
  /\ Len(A) = 3 /\ Len(B) = 3 /\ FirstDiff(A, B) = 2
  /\ result = FALSE /\ prev[1].result = FALSE

\* C3: exit code 1 exactly for fewer than two path arguments, and then no
\* comparison and no report; otherwise exit code 0 exactly for result true
\* and 2 exactly for result false, and the Result line agrees with it.
C3_ExitCode ==
  /\ (pc # "exit") => (exit_code = -1)
  /\ (pc = "exit") =>
       /\ (exit_code = 1) <=> (Len(args) < 2)
       /\ (Len(args) < 2) =>
            (~returned /\ file1 = NoStream /\ file2 = NoStream /\ stdout = <<>>
             /\ stderr = <<UsageMsg>>)
       /\ (Len(args) >= 2) =>
            /\ returned /\ Len(stdout) = 1
            /\ (exit_code = 0) <=> result
            /\ (exit_code = 2) <=> ~result
            /\ (stdout[1].result = "EQUAL") <=> (exit_code = 0)
            /\ (stdout[1].result = "NOT EQUAL") <=> (exit_code = 2)

\* An invocation with two differing files left with exit code 2 and the
\* report NOT EQUAL.
C3_Witness ==
  /\ pc = "exit" /\ Len(args) = 3 /\ exit_code = 2
  /\ args[1].exists /\ args[2].exists /\ Len(args[1].data) = Len(args[2].data)
  /\ stdout[1].result = "NOT EQUAL"

\* An invocation that reaches compare_files with a path that cannot be opened.
C4_MissingCase ==
  /\ pc # "main"
  /\ Len(args) >= 2
  /\ ~args[1].exists \/ ~args[2].exists
  /\ (Len(args) >= 3) => (Stoul(args[3]).status = "ok")

C4_Safe ==
  C4_MissingCase =>
    /\ pc \in {"open", "ret", "exit"}
    /\ (pc # "open") =>
         /\ returned /\ result = FALSE
         /\ stderr = <<UnableMsg>>
         /\ size1 = -1 /\ size2 = -1
         /\ ~buffer1.allocated /\ ~buffer2.allocated
         /\ file1.reads = 0 /\ file2.reads = 0 /\ file1.pos = 0 /\ file2.pos = 0
    /\ (pc = "exit") =>
         /\ exit_code = 2
         /\ stdout = <<Report(args[1], args[2], buffer_size_mb, FALSE)>>

\* C4: when either path cannot be opened, compare_files writes the "unable
\* to open" message, returns false without a size query, a buffer or a read,
\* nothing aborts, and the invocation ends with the report and exit code 2.
C4_OpenFailure ==
  /\ []C4_Safe
  /\ C4_MissingCase ~> (pc = "exit" /\ exit_code = 2 /\ Len(stdout) = 1)

\* The second path is missing, the first is not, and the process has exited.
C4_Witness ==
  /\ C4_MissingCase /\ pc = "exit" /\ args[1].exists /\ ~args[2].exists
  /\ exit_code = 2 /\ stderr = <<UnableMsg>>

\* C5: when both files open and their sizes differ, compare_files returns
\* false right after the size query: no buffer is allocated, no read issued.
C5_SizeShortCircuit ==
  (BothExist /\ Len(A) # Len(B) /\ pc \notin {"open", "size"}) =>
    /\ pc = "ret" /\ returned /\ result = FALSE
    /\ size1 = Len(A) /\ size2 = Len(B)
    /\ ~buffer1.allocated /\ ~buffer2.allocated
    /\ file1.reads = 0 /\ file2.reads = 0 /\ file1.pos = 0 /\ file2.pos = 0

\* A 3-byte file against a 1-byte file returned false.
C5_Witness ==
  /\ returned /\ BothExist /\ Len(A) = 3 /\ Len(B) = 1
  /\ result = FALSE /\ size1 = 3 /\ size2 = 1

\* C6 as stated: two files of size 0 compare equal without any read being
\* issued on either file.
C6_NoReadAtAll ==
  (returned /\ BothExist /\ Len(A) = 0 /\ Len(B) = 0) =>
    (result = TRUE /\ file1.reads = 0 /\ file2.reads = 0)

\* C6 amended: two files of size 0 compare equal after exactly one read on
\* each file, which obtains zero bytes; no byte is read or compared.
C6_ZeroLength ==
  (returned /\ BothExist /\ Len(A) = 0 /\ Len(B) = 0) =>
    /\ result = TRUE
    /\ file1.reads = 1 /\ file2.reads = 1
    /\ file1.gcount = 0 /\ file2.gcount = 0
    /\ file1.pos = 0 /\ file2.pos = 0
    /\ compared = 0

\* Two empty files compared with buffer size 2.
C6_Witness ==
  /\ returned /\ BothExist /\ Len(A) = 0 /\ Len(B) = 0 /\ buffer_size_bytes = 2
  /\ result = TRUE /\ file1.reads = 1 /\ file2.reads = 1

\* C7: for every buffer_size_mb that main accepts, an invocation on two files
\* of the same length and different contents (reads all succeeding) never
\* runs the loop with a buffer size of 0 bytes and never reports EQUAL.
C7_BufferSizeGuarded ==
  (/\ pc = "exit" /\ Len(args) >= 2 /\ file1.reads > 0
   /\ CleanReads /\ Len(A) = Len(B) /\ A # B)
  => (buffer_size_bytes # 0 /\ stdout[1].result # "EQUAL")

\* C8: compare_files(A, B, n) and compare_files(B, A, n) return the same
\* result, whether or not A and B can be opened.
C8_Symmetric ==
  (/\ returned /\ prev # <<>>
   /\ file1_path = prev[1].file2_path /\ file2_path = prev[1].file1_path
   /\ buffer_size_bytes = prev[1].buffer_size_bytes
   /\ CleanReads /\ ~prev[1].ioError)
  => (result = prev[1].result)

\* Two different files of the same length compared in both orders.
C8_Witness ==
  /\ returned /\ prev # <<>> /\ BothExist /\ CleanReads /\ ~prev[1].ioError
  /\ file1_path = prev[1].file2_path /\ file2_path = prev[1].file1_path
  /\ buffer_size_bytes = prev[1].buffer_size_bytes /\ buffer_size_bytes = 2
  /\ Len(A) = 3 /\ Len(B) = 3 /\ A # B
  /\ result = FALSE /\ prev[1].result = FALSE

\* C9: the loop goes on only while every chunk read so far matched, chunk by
\* chunk in increasing offset order; a false result out of the loop comes in
\* the iteration whose read lengths or chunks differ, and with reads that all
\* succeed that iteration is the one holding the lowest differing offset, so
\* nothing after it is read.
C9_ShortCircuit ==
  /\ (pc = "loop") =>
       /\ file1.reads = file2.reads /\ file1.pos = file2.pos
       /\ file1.gcount = file2.gcount
       /\ file1.pos = file1.reads * buffer_size_bytes \/ file1.pos = Len(A)
       /\ compared = file1.pos
       /\ SubSeq(A, 1, file1.pos) = SubSeq(B, 1, file2.pos)
  /\ (returned /\ file1.reads > 0) =>
       /\ file1.reads = file2.reads
       /\ ~result =>
            \/ file1.gcount # file2.gcount
            \/ \E i \in 1..file1.gcount :
                 A[file1.pos - file1.gcount + i] # B[file2.pos - file2.gcount + i]
       /\ (CleanReads /\ buffer_size_bytes > 0) =>
            /\ file1.reads = (FirstDiff(A, B) \div buffer_size_bytes) + 1
            /\ file1.pos = Min(Len(A), file1.reads * buffer_size_bytes)
            /\ file2.pos = file1.pos

\* Two 3-byte files that differ at offset 1, buffer size 1: false after two
\* reads, the third byte never read.
C9_Witness ==
  /\ returned /\ BothExist /\ CleanReads /\ ~result
  /\ Len(A) = 3 /\ Len(B) = 3 /\ buffer_size_bytes = 1 /\ FirstDiff(A, B) = 1
  /\ file1.reads = 2 /\ file2.reads = 2 /\ file1.pos = 2 /\ file2.pos = 2

\* C10: with a positive buffer size, compare_files returns true only when no
\* read ended in an I/O error and every byte offset of both files has been
\* read and compared.
C10_NoPartialEqual ==
  (returned /\ result /\ BothExist /\ buffer_size_bytes > 0) =>
    /\ ~ioError
    /\ compared = Len(A) /\ compared = Len(B)
    /\ file1.pos = Len(A) /\ file2.pos = Len(B)

====
